---- MODULE Spec2Model ----
(***************************************************************************)
(* A model of pyucallerapi's api.py: the BaseUCaller configuration object, *)
(* its phone helpers (check_phone, change_phone) and the APIUCaller        *)
(* operations (init_call, init_repeat, get_info, get_balance,              *)
(* get_service).                                                           *)
(*                                                                         *)
(* Python values are modelled as follows.  A phone or a code is a sequence *)
(* of one-character strings (the code indexes and slices it); a key, a     *)
(* client, a unique or a uid is a TLA+ string (the code only takes its     *)
(* length and interpolates it).  A value whose Python type matters is a    *)
(* tagged record (PyStr, PyInt, PyNone).  An object is a function from its *)
(* attribute names, as stored (private names are stored mangled), to their *)
(* values.                                                                 *)
(***************************************************************************)
EXTENDS Integers, Sequences, FiniteSets, TLC

VARIABLES api, cls, call, inp

vars == <<api, cls, call, inp>>

----------------------------------------------------------------------------
(* Python values *)

PyNone == [t |-> "None"]

PyStr(s) == [t |-> "str", s |-> s]

PyInt(n) == [t |-> "int", n |-> n]

IsNone(v) == v.t = "None"

IsStr(v) == v.t = "str"

\* len(v): defined for str, TypeError for int and None.
HasLen(v) == v.t = "str"

PyLen(v) == Len(v.s)

\* n copies of the one-character string c, as a TLA+ string.
RECURSIVE Rep(_, _)
Rep(c, n) == IF n = 0 THEN "" ELSE c \o Rep(c, n - 1)

\* n copies of the character c, as a sequence of characters.
RepSeq(c, n) == [i \in 1..n |-> c]

----------------------------------------------------------------------------
(* The phone pattern, BaseUCaller.__REGEX_PHONE, and re.match *)

DigitChars == {"0", "1", "2", "3", "4", "5", "6", "7", "8", "9"}

\* \s of a str pattern, within the alphabet of the model.
SpaceChars == {" ", "\t", "\n", "\r", "\f"}

SepClass == SpaceChars \cup {"-"}

\* One element of a pattern: n characters of the class chars, or one of the
\* literals lits; optional (a trailing ?) or not.
Class(chars, n, opt) == [kind |-> "class", chars |-> chars, n |-> n, opt |-> opt]

Lits(lits, opt) == [kind |-> "lits", lits |-> lits, opt |-> opt]

\* ^(\+7|7|8)?[\s\-]?\(?[489][0-9]{2}\)?[\s\-]?[0-9]{3}[\s\-]?[0-9]{2}[\s\-]?[0-9]{2}$
REGEX_PHONE ==
    << Lits({<<"+", "7">>, <<"7">>, <<"8">>}, TRUE),
       Class(SepClass, 1, TRUE),
       Class({"("}, 1, TRUE),
       Class({"4", "8", "9"}, 1, FALSE),
       Class(DigitChars, 2, FALSE),
       Class({")"}, 1, TRUE),
       Class(SepClass, 1, TRUE),
       Class(DigitChars, 3, FALSE),
       Class(SepClass, 1, TRUE),
       Class(DigitChars, 2, FALSE),
       Class(SepClass, 1, TRUE),
       Class(DigitChars, 2, FALSE) >>

\* s has n characters of chars from position i on.
ClassRun(s, i, chars, n) ==
    /\ i + n - 1 <= Len(s)
    /\ \A j \in i..(i + n - 1) : s[j] \in chars

\* s has the literal l at position i.
StartsWith(s, i, l) ==
    /\ i + Len(l) - 1 <= Len(s)
    /\ \A j \in 1..Len(l) : s[i + j - 1] = l[j]

\* $ without re.MULTILINE: the end of the string, or just before a final newline.
AtEnd(s, p) == \/ p = Len(s) + 1
               \/ p = Len(s) /\ s[p] = "\n"

\* Whether the elements of pat from the k-th on match s from position i to its end.
RECURSIVE MatchFrom(_, _, _, _)
MatchFrom(s, i, pat, k) ==
    IF k > Len(pat) THEN AtEnd(s, i)
    ELSE \/ /\ pat[k].kind = "class"
            /\ ClassRun(s, i, pat[k].chars, pat[k].n)
            /\ MatchFrom(s, i + pat[k].n, pat, k + 1)
         \/ /\ pat[k].kind = "lits"
            /\ \E l \in pat[k].lits : StartsWith(s, i, l) /\ MatchFrom(s, i + Len(l), pat, k + 1)
         \/ pat[k].opt /\ MatchFrom(s, i, pat, k + 1)

\* re.match(pat, s) is not None, for a pattern anchored by ^ and $.
ReMatch(pat, s) == MatchFrom(s, 1, pat, 1)

----------------------------------------------------------------------------
(* BaseUCaller.check_phone and BaseUCaller.change_phone (class methods) *)

\* A private name __x written in the body of class c is stored as _c__x.
Private(c, name) == "_" \o c \o name

\* The attributes of the class BaseUCaller that the methods read through cls.
BaseUCallerClass == (Private("BaseUCaller", "__REGEX_PHONE") :> REGEX_PHONE)

\* match(cls.__REGEX_PHONE, phone): the pattern is the attribute of the class.
check_phone(phone) == ReMatch(cls[Private("BaseUCaller", "__REGEX_PHONE")], phone)

\* phone[1:]
PyTail(phone) == SubSeq(phone, 2, Len(phone))

\* phone[0] or phone[1] of a string too short for it raises IndexError.
change_phone_raises(phone) ==
    \/ Len(phone) = 0
    \/ phone[1] = "+" /\ Len(phone) < 2

change_phone(phone) ==
    IF phone[1] = "+" /\ phone[2] = "7" THEN PyTail(phone)
    ELSE IF phone[1] = "7" THEN phone
    ELSE IF phone[1] = "8" THEN <<"7">> \o PyTail(phone)
    ELSE <<"7">> \o PyTail(phone)

----------------------------------------------------------------------------
(* Objects, private names and exceptions *)

\* The module-level name `api` before it is bound to a client.
NoneObj == ("__class__" :> "NoneType")

IsClient(o) == o["__class__"] = "APIUCaller"

HasAttr(o, name) == name \in DOMAIN o

SetAttr(o, name, v) == (name :> v) @@ o

PySession(id) == [t |-> "Session", id |-> id]

\* The session BaseUCaller.__init__ makes when none is given (with JSON headers).
DefaultSession == PySession("requests.Session()")

KEY_MAX == 32

ID_MAX == 64

CODE_LEN == 4

DEFAULT_TIMEOUT == 60

\* What one invocation did: the exception it raised ("none": it returned), the
\* value it returned, the GET requests it issued on the session, the warnings it
\* emitted and the records it logged at error level.
\* `about` stands for the message of the exception: the parameter it is about.
Raised(e, about) ==
    [exc |-> e, about |-> about, ret |-> PyNone, gets |-> <<>>,
     warnings |-> 0, errlogs |-> 0]

Returned(v, gets) ==
    [exc |-> "none", about |-> "", ret |-> v, gets |-> gets,
     warnings |-> 0, errlogs |-> 0]

\* Only functions, methods and classes have a __name__; an int, a str, None and
\* a Session do not.
HasDunderName(v) == v.t \in {"function", "method", "type"}

\* raise Exc(self.__class__.__qualname__, <v>.__name__, message): the arguments
\* are evaluated first, and <v>.__name__ raises AttributeError when v has none.
RaiseNaming(e, v, about) ==
    IF HasDunderName(v) THEN Raised(e, about) ELSE Raised("AttributeError", "__name__")

PyMethod(name) == [t |-> "method", name |-> name]

----------------------------------------------------------------------------
(* BaseUCaller: construction, properties and setters *)

\* The property getters, which run in BaseUCaller.
get_service_id(o) == o[Private("BaseUCaller", "__service_id")]

get_key(o) == o[Private("BaseUCaller", "__key")]

get_session(o) == o[Private("BaseUCaller", "__session")]

\* regex_phone: the instance attribute when the setter has made one, else the
\* class attribute.
get_regex_phone(o) ==
    IF HasAttr(o, Private("BaseUCaller", "__REGEX_PHONE"))
    THEN o[Private("BaseUCaller", "__REGEX_PHONE")]
    ELSE cls[Private("BaseUCaller", "__REGEX_PHONE")]

\* The object __init__ leaves when it returns.
NewClient(service_id, key, session) ==
    ("__class__" :> "APIUCaller")
    @@ (Private("BaseUCaller", "__service_id") :> service_id)
    @@ (Private("BaseUCaller", "__key") :> key)
    @@ (Private("BaseUCaller", "__session") :>
            IF IsNone(session) THEN DefaultSession ELSE session)
    @@ (Private("BaseUCaller", "__base_url") :> "https://api.ucaller.ru/")
    @@ (Private("BaseUCaller", "__version_api") :> "v1.0")

\* init_outcome requiring a key of exactly KEY_MAX characters.
init_outcome_exact(service_id, key, session) ==
    IF Len(key) # KEY_MAX
    THEN RaiseNaming("SetKey", service_id, "key")
    ELSE Returned(PyNone, <<>>)

\* Whether __init__ raises, and what: a key longer than KEY_MAX.
init_outcome(service_id, key, session) ==
    IF Len(key) > KEY_MAX
    THEN RaiseNaming("SetKey", service_id, "key")
    ELSE Returned(PyNone, <<>>)

\* The service_id setter.
set_service_id_outcome(o, service_id) ==
    IF service_id = get_service_id(o)
    THEN RaiseNaming("SetServiceId", get_service_id(o), "service_id")
    ELSE Returned(PyNone, <<>>)

\* The key setter.
set_key_outcome(o, key) ==
    IF Len(key) > KEY_MAX
    THEN RaiseNaming("SetKey", get_service_id(o), "key")
    ELSE Returned(PyNone, <<>>)

\* The session setter.
set_session_outcome(o, session) ==
    IF IsNone(session)
    THEN RaiseNaming("SetSession", get_session(o), "session")
    ELSE Returned(PyNone, <<>>)

----------------------------------------------------------------------------
(* APIUCaller: the operations *)

\* What session.get does when it is called: it returns a response whose JSON
\* body is `body`, or it raises `exc`.
TJson(body) == [kind |-> "json", body |-> body]

TRaise(e) == [kind |-> "raise", exc |-> e]

\* The subclasses of requests.exceptions.RequestException among the exceptions
\* a transport raises; the builtin ConnectionError is not one.
RequestExceptions == {"requests.ConnectionError", "requests.Timeout"}

PyDict(d) == [t |-> "dict", d |-> d]

\* try: result = self.session.get(f"{self.__base_url}{self.__version_api}/...",
\* timeout=timeout); return result.json()
\* except RequestException: raise GetException(...)
\* The f-string is evaluated in a method of APIUCaller, where __base_url means
\* _APIUCaller__base_url.
api_get(o, endpoint, query, timeout, transport) ==
    IF \/ ~HasAttr(o, Private("APIUCaller", "__base_url"))
       \/ ~HasAttr(o, Private("APIUCaller", "__version_api"))
    THEN Raised("AttributeError", "__base_url")
    ELSE LET req == [base |-> o[Private("APIUCaller", "__base_url")],
                     version |-> o[Private("APIUCaller", "__version_api")],
                     endpoint |-> endpoint,
                     query |-> query,
                     timeout |-> timeout,
                     session |-> get_session(o)]
         IN  IF transport.kind = "raise"
             THEN [Raised(IF transport.exc \in RequestExceptions
                          THEN "GetException" ELSE transport.exc, endpoint)
                   EXCEPT !.gets = <<req>>]
             ELSE Returned(PyDict(transport.body), <<req>>)

BaseQuery(o) == << <<"service_id", get_service_id(o)>>, <<"key", get_key(o)>> >>

OptParam(name, v) == IF IsNone(v) THEN <<>> ELSE << <<name, v>> >>

\* len(code) > 4 or len(code) < 4
code_bad_length(code) == PyLen(code) > CODE_LEN \/ PyLen(code) < CODE_LEN

\* id_too_long with >= for >.
id_too_long_ge(v) == ~IsNone(v) /\ PyLen(v) >= ID_MAX

\* client is not None and len(client) > 64 (the same for unique)
id_too_long(v) == ~IsNone(v) /\ PyLen(v) > ID_MAX

\* validate_init_call without its check of the phone.
validate_init_call_no_phone(phone, code, client, unique) ==
    IF ~HasLen(code) THEN "TypeError"
    ELSE IF code_bad_length(code) THEN "code"
    ELSE IF id_too_long(client) THEN "client"
    ELSE IF id_too_long(unique) THEN "unique"
    ELSE "ok"

\* The checks init_call makes before the request, in their order: the parameter
\* the first failing check is about, "TypeError" when len(code) raises, or "ok".
validate_init_call(phone, code, client, unique) ==
    IF ~check_phone(phone) THEN "phone"
    ELSE IF ~HasLen(code) THEN "TypeError"
    ELSE IF code_bad_length(code) THEN "code"
    ELSE IF id_too_long(client) THEN "client"
    ELSE IF id_too_long(unique) THEN "unique"
    ELSE "ok"

init_call(o, phone, code, client, unique, timeout, transport) ==
    LET failed == validate_init_call(phone, code, client, unique)
    IN  IF failed = "TypeError" THEN Raised("TypeError", "len(code)")
        ELSE IF failed # "ok"
        THEN RaiseNaming("ParamSetException", PyMethod("init_repeat"), failed)
        ELSE api_get(o, "initCall",
                     BaseQuery(o)
                     \o << <<"phone", PyStr(change_phone(phone))>>, <<"code", code>> >>
                     \o OptParam("client", client) \o OptParam("unique", unique),
                     timeout, transport)

init_repeat(o, uid, timeout, transport) ==
    api_get(o, "initRepeat", BaseQuery(o) \o << <<"uid", uid>> >>, timeout, transport)

get_info(o, uid, timeout, transport) ==
    api_get(o, "getInfo", BaseQuery(o) \o << <<"uid", uid>> >>, timeout, transport)

get_balance(o, timeout, transport) ==
    api_get(o, "getBalance", BaseQuery(o), timeout, transport)

get_service(o, timeout, transport) ==
    api_get(o, "getService", BaseQuery(o), timeout, transport)

----------------------------------------------------------------------------
(* Bounds and inputs *)

\* How far beyond a length limit (KEY_MAX, ID_MAX) the inputs go.
MaxOver == 1

\* How many fill digits, beyond the first, the generated national numbers use.
MaxFill == 1

\* How far from ten digits the generated national numbers go, either way.
MaxLenDelta == 1

P_89091234567 == <<"8", "9", "0", "9", "1", "2", "3", "4", "5", "6", "7">>

P_79091234567 == <<"7", "9", "0", "9", "1", "2", "3", "4", "5", "6", "7">>

P_8_909_123_45_67 == <<"8", "(", "9", "0", "9", ")", "1", "2", "3", "-", "4", "5", "-", "6", "7">>

P_7_909_123_45_67 == <<"7", " ", "9", "0", "9", " ", "1", "2", "3", " ", "4", "5", " ", "6", "7">>

P_9999999999 == <<"9", "9", "9", "9", "9", "9", "9", "9", "9", "9">>

P_12345 == <<"1", "2", "3", "4", "5">>

P_890912345 == <<"8", "9", "0", "9", "1", "2", "3", "4", "5">>

P_790912345678 == <<"7", "9", "0", "9", "1", "2", "3", "4", "5", "6", "7", "8">>

P_abc == <<"a", "b", "c">>

P_79091234567_nl == <<"7", "9", "0", "9", "1", "2", "3", "4", "5", "6", "7", "\n">>

\* The phones the tests and the spec name.
NamedPhones ==
    {P_89091234567, P_79091234567, P_8_909_123_45_67, P_7_909_123_45_67,
     P_9999999999, P_12345, P_890912345, P_790912345678, P_abc,
     P_79091234567_nl, <<>>, <<"+">>}

FillOrder == <<"9", "0", "1", "2", "3", "4", "5", "6", "7", "8">>

\* A first digit followed by n - 1 copies of a fill digit.
Nationals ==
    {<<lead>> \o RepSeq(FillOrder[k], n - 1) :
        lead \in {"4", "7", "8", "9"},
        k \in 1..(MaxFill + 1),
        n \in (10 - MaxLenDelta)..(10 + MaxLenDelta)}

Layout(c, s1, op, cl, s2, s3, s4, nat) ==
    c \o s1 \o op \o SubSeq(nat, 1, 3) \o cl \o s2 \o SubSeq(nat, 4, 6)
      \o s3 \o SubSeq(nat, 7, 8) \o s4 \o SubSeq(nat, 9, Len(nat))

\* National numbers written with and without a country prefix, separators and
\* parentheses.
LaidOutPhones ==
    {Layout(c, s1, op, cl, s2, s3, s4, nat) :
        c \in {<<>>, <<"+", "7">>, <<"7">>, <<"8">>, <<"+">>},
        s1 \in {<<>>, <<" ">>, <<"-">>},
        op \in {<<>>, <<"(">>},
        cl \in {<<>>, <<")">>},
        s2 \in {<<>>, <<" ">>, <<"-">>},
        s3 \in {<<>>, <<"-">>},
        s4 \in {<<>>, <<"-">>},
        nat \in Nationals}

PhoneInputs == NamedPhones \cup LaidOutPhones

\* The phones of the client's state machine.
FewPhones == {P_8_909_123_45_67, P_12345}

CodeInputs ==
    {PyStr(<<"1", "2", "3", "4">>), PyStr(<<"1", "2", "-", "3", "4">>),
     PyStr(<<"1", "2", "3">>), PyInt(1234)}

\* client and unique: absent, and ID_MAX characters and more.
IdInputs ==
    {PyNone} \cup {PyStr(Rep("c", n)) : n \in ID_MAX..(ID_MAX + MaxOver)}

UidInputs == {PyStr("12345")}

ServiceIdInputs == {PyInt(296227), PyInt(15235)}

\* Keys: the 9 characters of "too_short", and KEY_MAX characters and more.
KeyInputs == {Rep("k", n) : n \in {9} \cup (KEY_MAX..(KEY_MAX + MaxOver))}

SessionInputs == {PyNone, PySession("mock")}

\* A pattern a caller may assign to regex_phone: eleven digits.
REGEX_DIGITS == << Class(DigitChars, 11, FALSE) >>

RegexInputs == {REGEX_DIGITS}

BodyOk == [status |-> TRUE, ucaller_id |-> 103000, exists |-> TRUE]

BodyError == [status |-> FALSE, error |-> "X", code |-> 404]

Transports == {TJson(BodyOk), TJson(BodyError), TRaise("requests.ConnectionError")}

NoTransport == [kind |-> "unused"]

----------------------------------------------------------------------------
(* The state machine.  api is the object the name `api` is bound to; call   *)
(* is the last invocation: the operation, its arguments, what the transport *)
(* was set to do, and the outcome; inp is the phone under test of           *)
(* SpecPhone.                                                               *)

Invocation(op, args, transport, out) ==
    [op |-> op, args |-> args, transport |-> transport, out |-> out]

NoCall == Invocation("none", [none |-> TRUE], NoTransport, Returned(PyNone, <<>>))

\* api = APIUCaller(service_id=..., key=..., session=...): the name is bound
\* only when __init__ returns.
Construct(service_id, key, session) ==
    LET out == init_outcome(service_id, key, session)
    IN  /\ call' = Invocation("__init__",
                      [service_id |-> service_id, key |-> key, session |-> session],
                      NoTransport, out)
        /\ api' = IF out.exc = "none" THEN NewClient(service_id, key, session) ELSE api
        /\ UNCHANGED <<cls, inp>>

\* api.service_id = service_id
SetServiceId(service_id) ==
    LET out == set_service_id_outcome(api, service_id)
    IN  /\ IsClient(api)
        /\ call' = Invocation("service_id.setter", [service_id |-> service_id],
                              NoTransport, out)
        /\ api' = IF out.exc = "none"
                  THEN SetAttr(api, Private("BaseUCaller", "__service_id"), service_id)
                  ELSE api
        /\ UNCHANGED <<cls, inp>>

\* The key setter assigning before it checks the length.
SetKeyOp_store_first(key) ==
    LET out == set_key_outcome(api, key)
    IN  /\ IsClient(api)
        /\ call' = Invocation("key.setter", [key |-> key], NoTransport, out)
        /\ api' = SetAttr(api, Private("BaseUCaller", "__key"), key)
        /\ UNCHANGED <<cls, inp>>

\* api.key = key
SetKeyOp(key) ==
    LET out == set_key_outcome(api, key)
    IN  /\ IsClient(api)
        /\ call' = Invocation("key.setter", [key |-> key], NoTransport, out)
        /\ api' = IF out.exc = "none"
                  THEN SetAttr(api, Private("BaseUCaller", "__key"), key)
                  ELSE api
        /\ UNCHANGED <<cls, inp>>

\* api.session = session
SetSessionOp(session) ==
    LET out == set_session_outcome(api, session)
    IN  /\ IsClient(api)
        /\ call' = Invocation("session.setter", [session |-> session], NoTransport, out)
        /\ api' = IF out.exc = "none"
                  THEN SetAttr(api, Private("BaseUCaller", "__session"), session)
                  ELSE api
        /\ UNCHANGED <<cls, inp>>

\* The regex_phone setter assigning the attribute of the class, as
\* type(self).__REGEX_PHONE = regex would.
SetRegexPhone_on_class(regex) ==
    /\ IsClient(api)
    /\ call' = Invocation("regex_phone.setter", [regex |-> regex], NoTransport,
                          Returned(PyNone, <<>>))
    /\ cls' = SetAttr(cls, Private("BaseUCaller", "__REGEX_PHONE"), regex)
    /\ UNCHANGED <<api, inp>>

\* api.regex_phone = regex
SetRegexPhone(regex) ==
    /\ IsClient(api)
    /\ call' = Invocation("regex_phone.setter", [regex |-> regex], NoTransport,
                          Returned(PyNone, <<>>))
    /\ api' = SetAttr(api, Private("BaseUCaller", "__REGEX_PHONE"), regex)
    /\ UNCHANGED <<cls, inp>>

InitCall(phone, code, client, unique, timeout, transport) ==
    /\ IsClient(api)
    /\ call' = Invocation("init_call",
                  [phone |-> phone, code |-> code, client |-> client,
                   unique |-> unique, timeout |-> timeout],
                  transport,
                  init_call(api, phone, code, client, unique, timeout, transport))
    /\ UNCHANGED <<api, cls, inp>>

InitRepeat(uid, timeout, transport) ==
    /\ IsClient(api)
    /\ call' = Invocation("init_repeat", [uid |-> uid, timeout |-> timeout],
                          transport, init_repeat(api, uid, timeout, transport))
    /\ UNCHANGED <<api, cls, inp>>

GetInfo(uid, timeout, transport) ==
    /\ IsClient(api)
    /\ call' = Invocation("get_info", [uid |-> uid, timeout |-> timeout],
                          transport, get_info(api, uid, timeout, transport))
    /\ UNCHANGED <<api, cls, inp>>

GetBalance(timeout, transport) ==
    /\ IsClient(api)
    /\ call' = Invocation("get_balance", [timeout |-> timeout],
                          transport, get_balance(api, timeout, transport))
    /\ UNCHANGED <<api, cls, inp>>

GetService(timeout, transport) ==
    /\ IsClient(api)
    /\ call' = Invocation("get_service", [timeout |-> timeout],
                          transport, get_service(api, timeout, transport))
    /\ UNCHANGED <<api, cls, inp>>

Init ==
    /\ api = NoneObj
    /\ cls = BaseUCallerClass
    /\ call = NoCall
    /\ inp = <<>>

Next ==
    \/ \E sid \in ServiceIdInputs, k \in KeyInputs, se \in SessionInputs :
          Construct(sid, k, se)
    \/ \E sid \in ServiceIdInputs : SetServiceId(sid)
    \/ \E k \in KeyInputs : SetKeyOp(k)
    \/ \E se \in SessionInputs : SetSessionOp(se)
    \/ \E r \in RegexInputs : SetRegexPhone(r)
    \/ \E p \in FewPhones, c \in CodeInputs, cl \in IdInputs, u \in IdInputs,
          tr \in Transports : InitCall(p, c, cl, u, DEFAULT_TIMEOUT, tr)
    \/ \E uid \in UidInputs, tr \in Transports : InitRepeat(uid, DEFAULT_TIMEOUT, tr)
    \/ \E uid \in UidInputs, tr \in Transports : GetInfo(uid, DEFAULT_TIMEOUT, tr)
    \/ \E tr \in Transports : GetBalance(DEFAULT_TIMEOUT, tr)
    \/ \E tr \in Transports : GetService(DEFAULT_TIMEOUT, tr)

Spec == Init /\ [][Next]_vars

----------------------------------------------------------------------------
(* SpecPhone: the phone helpers and init_call on one phone, drawn from      *)
(* PhoneInputs, on a client built with the constructor's defaults.          *)

\* The default key of __init__, 32 characters.
DEFAULT_KEY == "SezKuYbfSaKT8j211ESjTgnlLcyNf4K5"

PyBool(b) == [t |-> "bool", b |-> b]

\* BaseUCaller.check_phone(inp)
CheckPhoneInp ==
    /\ call' = Invocation("check_phone", [phone |-> inp], NoTransport,
                          Returned(PyBool(check_phone(inp)), <<>>))
    /\ UNCHANGED <<api, cls, inp>>

\* BaseUCaller.change_phone(inp)
ChangePhoneInp ==
    /\ call' = Invocation("change_phone", [phone |-> inp], NoTransport,
                          IF change_phone_raises(inp)
                          THEN Raised("IndexError", "phone")
                          ELSE Returned(PyStr(change_phone(inp)), <<>>))
    /\ UNCHANGED <<api, cls, inp>>

\* api.init_call(phone=inp, code="1234")
InitCallInp ==
    \E tr \in Transports :
        InitCall(inp, PyStr(<<"1", "2", "3", "4">>), PyNone, PyNone, DEFAULT_TIMEOUT, tr)

InitPhone ==
    /\ api = NewClient(PyInt(296227), DEFAULT_KEY, PyNone)
    /\ cls = BaseUCallerClass
    /\ call = NoCall
    /\ inp \in PhoneInputs

NextPhone == CheckPhoneInp \/ ChangePhoneInp \/ InitCallInp

SpecPhone == InitPhone /\ [][NextPhone]_vars

----------------------------------------------------------------------------
(* Phones: what the claims say of them *)

SeparatorChars == SpaceChars \cup {"-", "(", ")"}

IsDigitChar(c) == c \in DigitChars

\* The digits of a string, in order.
DigitsOf(s) == SelectSeq(s, IsDigitChar)

\* The last ten digits of a phone: its national number.
NationalDigits(s) ==
    LET d == DigitsOf(s) IN SubSeq(d, Len(d) - 9, Len(d))

\* An accepted phone written with a leading 8, or as a bare ten-digit number.
LeadingEightOrBare(s) ==
    \/ Len(DigitsOf(s)) = 10
    \/ Len(DigitsOf(s)) = 11 /\ DigitsOf(s)[1] = "8"

ChangedAccepted ==
    /\ call.op = "change_phone"
    /\ check_phone(call.args.phone)

\* C1: for every accepted phone, written with or without separators,
\* change_phone returns the canonical numeric string, 7 and the ten national
\* digits, which holds no space, hyphen or parenthesis; the four forms of
\* 79091234567 all give 79091234567.
C1_NormalizedIsCanonical ==
    ChangedAccepted =>
        /\ call.out.exc = "none"
        /\ \A i \in 1..Len(call.out.ret.s) : call.out.ret.s[i] \notin SeparatorChars
        /\ call.args.phone \in {P_89091234567, P_79091234567, P_8_909_123_45_67,
                                P_7_909_123_45_67}
              => call.out.ret.s = P_79091234567

\* C2: for every accepted phone with a leading 8 or written as a bare ten-digit
\* number, the digits of what change_phone returns are 7 followed by all ten
\* national digits, eleven digits in all.
C2_SevenThenTenDigits ==
    (ChangedAccepted /\ LeadingEightOrBare(call.args.phone)) =>
        /\ call.out.exc = "none"
        /\ DigitsOf(call.out.ret.s) = <<"7">> \o NationalDigits(call.args.phone)
        /\ Len(DigitsOf(call.out.ret.s)) = 11

\* C3: init_call with a phone that does not match the phone pattern fails with
\* the validation error about the phone, and issues no GET.
C3_InvalidPhoneFailsBeforeRequest ==
    (call.op = "init_call" /\ ~ReMatch(REGEX_PHONE, call.args.phone)) =>
        /\ call.out.exc = "ParamSetException"
        /\ call.out.about = "phone"
        /\ call.out.gets = <<>>

\* C3's case: init_call was called with 790912345678, which has a digit too many.
C3_Witness ==
    /\ call.op = "init_call"
    /\ call.args.phone = P_790912345678
    /\ ~ReMatch(REGEX_PHONE, call.args.phone)
    /\ call.out.exc = "ParamSetException"

----------------------------------------------------------------------------
(* The operations: what the claims say of them *)

Operations == {"init_call", "init_repeat", "get_info", "get_balance", "get_service"}

\* The last invocation was an operation whose arguments passed its validation.
PassedValidation ==
    /\ call.op \in Operations
    /\ call.op = "init_call" =>
          /\ ReMatch(REGEX_PHONE, call.args.phone)
          /\ IsStr(call.args.code)
          /\ Len(call.args.code.s) = CODE_LEN
          /\ IsNone(call.args.client) \/ Len(call.args.client.s) <= ID_MAX
          /\ IsNone(call.args.unique) \/ Len(call.args.unique.s) <= ID_MAX

\* The separator characters code validation removes.
CodeSeparators == {"-", " "}

IsCodeChar(c) == c \notin CodeSeparators

StripSeparators(s) == SelectSeq(s, IsCodeChar)

\* The last invocation failed in the validation of its code.
CodeRejected ==
    \/ call.out.exc = "TypeError"
    \/ call.out.exc = "ParamSetException" /\ call.out.about = "code"

\* C4: init_call accepts a code exactly when it is a string that is 4 characters
\* long once its separators are removed (1234 and 12-34 are accepted; 123 and
\* the integer 1234 are rejected).
C4_CodeOfFourAfterStripping ==
    (/\ call.op = "init_call"
     /\ ReMatch(REGEX_PHONE, call.args.phone)
     /\ IsNone(call.args.client)
     /\ IsNone(call.args.unique)) =>
        (CodeRejected <=>
            ~(/\ IsStr(call.args.code)
              /\ Len(StripSeparators(call.args.code.s)) = CODE_LEN))

\* C5: when the transport raises during the GET of an operation, the operation
\* returns None and logs at error level; it raises nothing.
C5_TransportFailureReturnsNone ==
    (PassedValidation /\ call.transport.kind = "raise") =>
        /\ call.out.exc = "none"
        /\ IsNone(call.out.ret)
        /\ call.out.errlogs >= 1

\* The success model of each operation.
SuccessModel(op) ==
    CASE op = "init_call" -> "InitCallModel"
      [] op = "init_repeat" -> "InitRepeatModel"
      [] op = "get_info" -> "GetInfoModel"
      [] op = "get_balance" -> "GetBalanceModel"
      [] op = "get_service" -> "GetServiceModel"

\* C6: when the GET of an operation succeeds, status true gives the success
\* model of the operation with the fields of the JSON, and status false gives
\* the error model with the error and the code of the JSON.
C6_ResultKindFollowsStatus ==
    (PassedValidation /\ call.transport.kind = "json") =>
        /\ call.out.exc = "none"
        /\ call.out.ret.t = "model"
        /\ call.out.ret.d = call.transport.body
        /\ call.out.ret.model = IF call.transport.body.status
                                THEN SuccessModel(call.op)
                                ELSE "ErrorResponseModel"

\* C7: the stored key is never longer than 32 characters: __init__ and the key
\* setter fail with SetKey on a longer key, leaving the binding and the stored
\* key as they were, and store a key of at most 32 characters as given.
C7_KeyLengthGuard ==
    [][ /\ (call'.op \in {"__init__", "key.setter"} /\ Len(call'.args.key) > KEY_MAX) =>
              (call'.out.exc = "SetKey" /\ api' = api)
        /\ (call'.op \in {"__init__", "key.setter"} /\ Len(call'.args.key) <= KEY_MAX) =>
              (call'.out.exc = "none" /\ get_key(api') = call'.args.key)
        /\ IsClient(api') => Len(get_key(api')) <= KEY_MAX ]_vars

TooLong(v) == ~IsNone(v) /\ Len(v.s) > ID_MAX

\* C9: init_call with a client or a unique longer than 64 characters fails
\* before any request, with the validation error when its code is a string;
\* with a valid phone and code, an absent client or unique or one of at most 64
\* characters passes, and the error is about the first that is too long.
C9_ClientAndUniqueCappedAt64 ==
    call.op = "init_call" =>
        /\ (TooLong(call.args.client) \/ TooLong(call.args.unique)) =>
              /\ call.out.exc # "none"
              /\ call.out.gets = <<>>
              /\ IsStr(call.args.code) => call.out.exc = "ParamSetException"
        /\ (/\ ReMatch(REGEX_PHONE, call.args.phone)
            /\ IsStr(call.args.code)
            /\ Len(call.args.code.s) = CODE_LEN) =>
              /\ TooLong(call.args.client) =>
                    call.out.exc = "ParamSetException" /\ call.out.about = "client"
              /\ (~TooLong(call.args.client) /\ TooLong(call.args.unique)) =>
                    call.out.exc = "ParamSetException" /\ call.out.about = "unique"
              /\ (~TooLong(call.args.client) /\ ~TooLong(call.args.unique)) =>
                    call.out.exc # "ParamSetException"

\* C9's case: init_call with a valid phone and code, a client of exactly 64
\* characters and a unique of 65, which fails about the unique.
C9_Witness ==
    /\ call.op = "init_call"
    /\ ReMatch(REGEX_PHONE, call.args.phone)
    /\ IsStr(call.args.code)
    /\ Len(call.args.code.s) = CODE_LEN
    /\ ~IsNone(call.args.client)
    /\ Len(call.args.client.s) = ID_MAX
    /\ ~IsNone(call.args.unique)
    /\ Len(call.args.unique.s) = ID_MAX + 1
    /\ call.out.exc = "ParamSetException"
    /\ call.out.about = "unique"

\* C10: every call of init_repeat emits exactly one deprecation warning, and
\* returns a value that is not None when the transport answers.
C10_RepeatWarnsOnceAndReturns ==
    call.op = "init_repeat" =>
        /\ call.out.warnings = 1
        /\ call.transport.kind = "json" =>
              (call.out.exc = "none" /\ ~IsNone(call.out.ret))

----------------------------------------------------------------------------
(* The request of an operation *)

\* C11: an operation whose arguments passed validation issues exactly one GET
\* on the session, whatever the transport then does: one request is recorded,
\* never none and never a second one.
C11_ValidatedOperationIssuesOneGet ==
    PassedValidation => Len(call.out.gets) = 1

\* The endpoint each operation names in its URL.
EndpointOf ==
    [init_call |-> "initCall", init_repeat |-> "initRepeat", get_info |-> "getInfo",
     get_balance |-> "getBalance", get_service |-> "getService"]

\* The values the query carries under a name.
ParamValues(query, name) ==
    {query[i][2] : i \in {j \in DOMAIN query : query[j][1] = name}}

\* C12: the GET of a validated operation targets the base URL and version the
\* client stored at construction followed by the operation's endpoint, carries
\* the service id and key the client holds and the caller's timeout, and in
\* init_call has a client and a unique parameter exactly when the argument was
\* given.
C12_RequestCarriesStoredConfiguration ==
    PassedValidation =>
        /\ call.out.gets # <<>>
        /\ LET req == call.out.gets[1]
           IN  /\ req.base = api[Private("BaseUCaller", "__base_url")]
               /\ req.version = api[Private("BaseUCaller", "__version_api")]
               /\ req.endpoint = EndpointOf[call.op]
               /\ req.timeout = call.args.timeout
               /\ ParamValues(req.query, "service_id") = {get_service_id(api)}
               /\ ParamValues(req.query, "key") = {get_key(api)}
               /\ call.op = "init_call" =>
                     /\ ParamValues(req.query, "client") =
                           (IF IsNone(call.args.client) THEN {} ELSE {call.args.client})
                     /\ ParamValues(req.query, "unique") =
                           (IF IsNone(call.args.unique) THEN {} ELSE {call.args.unique})

----------------------------------------------------------------------------
(* The configuration of a client *)

\* The attributes that hold the configuration of a client.
ConfigFields ==
    {Private("BaseUCaller", "__service_id"), Private("BaseUCaller", "__key"),
     Private("BaseUCaller", "__session"), Private("BaseUCaller", "__base_url"),
     Private("BaseUCaller", "__version_api")}

\* The setter of a configuration attribute; the base URL and the version
\* have none.
SetterOf(f) ==
    IF f = Private("BaseUCaller", "__service_id") THEN "service_id.setter"
    ELSE IF f = Private("BaseUCaller", "__key") THEN "key.setter"
    ELSE IF f = Private("BaseUCaller", "__session") THEN "session.setter"
    ELSE "no setter"

\* C13: on a client, every invocation other than a setter that succeeds leaves
\* the service id, key, session, base URL and version as they were: the
\* operations change nothing of the client whatever their outcome, and a
\* setter that succeeds changes its own attribute and no other.
C13_ConfigurationChangesOnlyBySetters ==
    [][(IsClient(api) /\ call'.op # "__init__") =>
          /\ IsClient(api')
          /\ call'.op \in Operations => api' = api
          /\ call'.out.exc # "none" => api' = api
          /\ \A f \in ConfigFields :
                api'[f] # api[f] =>
                    /\ call'.op = SetterOf(f)
                    /\ call'.out.exc = "none"
                    /\ api'[f] = call'.args[CHOOSE a \in DOMAIN call'.args : TRUE]
                    /\ \A g \in ConfigFields \ {f} : api'[g] = api[g]]_vars

\* C13's case: the key setter was given a key of 33 characters, failed, and
\* the client holds the key it held.
C13_Witness ==
    /\ IsClient(api)
    /\ call.op = "key.setter"
    /\ Len(call.args.key) = KEY_MAX + 1
    /\ call.out.exc # "none"
    /\ get_key(api) # call.args.key

\* C14: the regex_phone setter changes what the getter of the client returns
\* and nothing else: check_phone accepts the same phones after it as before,
\* the validation of init_call rejects the same phones, and the configuration
\* of the client is as it was.  check_phone reads the attribute of the class,
\* which every client shares.
C14_RegexSetterLeavesAcceptance ==
    [][(IsClient(api) /\ call'.op = "regex_phone.setter") =>
          /\ get_regex_phone(api)' = call'.args.regex
          /\ cls' = cls
          /\ \A p \in NamedPhones :
                /\ check_phone(p)' = check_phone(p)
                /\ validate_init_call(p, PyStr(<<"1", "2", "3", "4">>), PyNone, PyNone)'
                      = validate_init_call(p, PyStr(<<"1", "2", "3", "4">>), PyNone, PyNone)
          /\ \A f \in ConfigFields : api'[f] = api[f]]_vars

\* C14's case: the client's pattern was set to eleven digits, its getter
\* returns that pattern, and check_phone still accepts 8(909)123-45-67, which
\* eleven digits do not match.
C14_Witness ==
    /\ IsClient(api)
    /\ call.op = "regex_phone.setter"
    /\ get_regex_phone(api) = REGEX_DIGITS
    /\ ~ReMatch(REGEX_DIGITS, P_8_909_123_45_67)
    /\ check_phone(P_8_909_123_45_67)

\* C15: assigning to service_id the value the client holds fails with
\* SetServiceId and leaves the client as it was; assigning a different value
\* succeeds and stores it.
C15_EqualServiceIdFailsWithSetServiceId ==
    [][(IsClient(api) /\ call'.op = "service_id.setter") =>
          IF call'.args.service_id = get_service_id(api)
          THEN call'.out.exc = "SetServiceId" /\ api' = api
          ELSE /\ call'.out.exc = "none"
               /\ get_service_id(api') = call'.args.service_id]_vars

====
